---- MODULE Spec2Model ----
(***************************************************************************)
(* A model of noq (src/src/main.rs): the expression tree, the pattern      *)
(* matcher, substitution, the strategy-driven rewrite engine and the       *)
(* session (Context) that processes commands.                              *)
(***************************************************************************)
EXTENDS Integers, Sequences, FiniteSets, TLC

VARIABLES
    rules,            \* Context.rules: name -> Rule
    current_expr,     \* Context.current_expr: Option<Expr>
    shaping_history,  \* Context.shaping_history: Vec<Expr>
    quit,             \* Context.quit
    last,             \* the last command handed to process_command and what it returned
    shaped,           \* the expression the open shaping session was started on
    out,              \* the lines the last command wrote to standard output
    net_applies,      \* successful applies less successful undos since the last
                      \* successful StartShaping
    reported,         \* start_repl: the error reported for the last line
    script,           \* interpret_file: the commands of the file
    pos,              \* interpret_file: how many of them have been processed
    pm_pattern,       \* pattern_match: argument `pattern`
    pm_value,         \* pattern_match: argument `value`
    pm_result,        \* pattern_match: the returned Option<Bindings>
    ap_rule,          \* Rule::apply: self
    ap_expr,          \* Rule::apply: argument `expr`
    ap_strategy,      \* Rule::apply: the name Strategy::by_name resolves
    ap_result,        \* Rule::apply: the returned Result<Expr, RuntimeError>
    px_tokens,        \* the parsers: the tokens the lexer holds
    px_result,        \* the parsers: the returned Result and the tokens left
    dp_expr,          \* Display for Expr: self
    dp_result         \* Display for Expr: the text written

vars == <<rules, current_expr, shaping_history, quit, last, shaped, out, net_applies,
          reported, script, pos,
          pm_pattern, pm_value, pm_result, ap_rule, ap_expr, ap_strategy, ap_result,
          px_tokens, px_result, dp_expr, dp_result>>

ctx_vars == <<rules, current_expr, shaping_history, quit, last, shaped, out, net_applies>>
line_vars == <<reported>>
file_vars == <<script, pos>>
px_vars == <<px_tokens, px_result>>
dp_vars == <<dp_expr, dp_result>>
pm_vars == <<pm_pattern, pm_value, pm_result>>
ap_vars == <<ap_rule, ap_expr, ap_strategy, ap_result>>

-----------------------------------------------------------------------------
(* Bounds *)

\* the rewrite engine is followed down to this many nested apply_impl calls
MaxDepth == 12
\* the session keeps at most this many snapshots in the model
MaxHistory == 2

-----------------------------------------------------------------------------
(* Option::None, and the expression tree *)

None == [type |-> "None"]

Sym(name) == [type |-> "Sym", name |-> name]
Var(name) == [type |-> "Var", name |-> name]
Fun(head, args) == [type |-> "Fun", head |-> head, args |-> args]
Op(op, lhs, rhs) == [type |-> "Op", op |-> op, lhs |-> lhs, rhs |-> rhs]

\* the first characters that make an identifier a variable
VarNames == {"X", "A", "B", "_", "Strategy", "Head", "Body", "Expr"}

var_or_sym_based_on_name(name) ==
    IF name \in VarNames THEN Var(name) ELSE Sym(name)

-----------------------------------------------------------------------------
(* enum Op, and Display for Op and Expr *)

Ops == {"Add", "Sub", "Mul", "Div", "Pow"}

MAX_PRECEDENCE == 2

precedence(op) ==
    CASE op \in {"Add", "Sub"} -> 0
      [] op \in {"Mul", "Div"} -> 1
      [] op = "Pow" -> 2

\* Display for Op
OpDisplay(op) ==
    CASE op = "Add" -> "+"
      [] op = "Sub" -> "-"
      [] op = "Mul" -> "*"
      [] op = "Div" -> "/"
      [] op = "Pow" -> "^"

RECURSIVE Display(_)
RECURSIVE DisplayArgs(_, _)

\* the arguments from index i (1-based) on, each after the first behind ", "
DisplayArgs(args, i) ==
    IF i > Len(args)
    THEN ""
    ELSE (IF i > 1 THEN ", " ELSE "") \o Display(args[i]) \o DisplayArgs(args, i + 1)

\* one side of an Op under the operator op
DisplaySide(op, side) ==
    IF side.type = "Op" /\ precedence(side.op) <= precedence(op)
    THEN "(" \o Display(side) \o ")"
    ELSE Display(side)

\* Display for Expr with every head that is not a name left bare
Display_BareHead(expr) ==
    CASE expr.type \in {"Sym", "Var"} -> expr.name
      [] expr.type = "Fun" ->
            Display(expr.head) \o "(" \o DisplayArgs(expr.args, 1) \o ")"
      [] expr.type = "Op" ->
            DisplaySide(expr.op, expr.lhs)
            \o (IF precedence(expr.op) = 0
                THEN " " \o OpDisplay(expr.op) \o " "
                ELSE OpDisplay(expr.op))
            \o DisplaySide(expr.op, expr.rhs)

\* Display for Expr
Display(expr) ==
    CASE expr.type \in {"Sym", "Var"} -> expr.name
      [] expr.type = "Fun" ->
            (IF expr.head.type \in {"Sym", "Var"}
             THEN expr.head.name
             ELSE "(" \o Display(expr.head) \o ")")
            \o "(" \o DisplayArgs(expr.args, 1) \o ")"
      [] expr.type = "Op" ->
            DisplaySide(expr.op, expr.lhs)
            \o (IF precedence(expr.op) = 0
                THEN " " \o OpDisplay(expr.op) \o " "
                ELSE OpDisplay(expr.op))
            \o DisplaySide(expr.op, expr.rhs)

\* println!(" => {}", expr)
Line(expr) == " => " \o Display(expr)

-----------------------------------------------------------------------------
(* Bindings = HashMap<String, Expr>: a function from the bound names *)

EmptyBindings == [n \in {} |-> None]

BindingsGet(bindings, name) ==
    IF name \in DOMAIN bindings THEN bindings[name] ELSE None

BindingsInsert(bindings, name, value) ==
    [n \in (DOMAIN bindings) \cup {name} |-> IF n = name THEN value ELSE bindings[n]]

RECURSIVE pattern_match_impl(_, _, _)
RECURSIVE pattern_match_args(_, _, _, _)

\* the `for i in 0..args1.len()` loop of the Fun arm, from index i (1-based)
pattern_match_args(args1, args2, i, bindings) ==
    IF i > Len(args1)
    THEN [ok |-> TRUE, bindings |-> bindings]
    ELSE LET r == pattern_match_impl(args1[i], args2[i], bindings)
         IN  IF ~r.ok
             THEN [ok |-> FALSE, bindings |-> r.bindings]
             ELSE pattern_match_args(args1, args2, i + 1, r.bindings)

\* pattern_match_impl that does not compare a bound variable with the value
pattern_match_impl_NoBoundCheck(pattern, value, bindings) ==
    CASE pattern.type = "Sym" /\ value.type = "Sym" ->
            [ok |-> pattern.name = value.name, bindings |-> bindings]
      [] pattern.type = "Var" ->
            IF pattern.name = "_" \/ BindingsGet(bindings, pattern.name) # None
            THEN [ok |-> TRUE, bindings |-> bindings]
            ELSE [ok |-> TRUE,
                  bindings |-> BindingsInsert(bindings, pattern.name, value)]
      [] pattern.type = "Op" /\ value.type = "Op" ->
            IF pattern.op # value.op
            THEN [ok |-> FALSE, bindings |-> bindings]
            ELSE LET l == pattern_match_impl(pattern.lhs, value.lhs, bindings)
                 IN  IF ~l.ok
                     THEN l
                     ELSE pattern_match_impl(pattern.rhs, value.rhs, l.bindings)
      [] pattern.type = "Fun" /\ value.type = "Fun" ->
            LET h == pattern_match_impl(pattern.head, value.head, bindings)
            IN  IF h.ok /\ Len(pattern.args) = Len(value.args)
                THEN pattern_match_args(pattern.args, value.args, 1, h.bindings)
                ELSE [ok |-> FALSE, bindings |-> h.bindings]
      [] OTHER -> [ok |-> FALSE, bindings |-> bindings]

\* returns the bool and the bindings as the call leaves them
pattern_match_impl(pattern, value, bindings) ==
    CASE pattern.type = "Sym" /\ value.type = "Sym" ->
            [ok |-> pattern.name = value.name, bindings |-> bindings]
      [] pattern.type = "Var" ->
            IF pattern.name = "_"
            THEN [ok |-> TRUE, bindings |-> bindings]
            ELSE IF BindingsGet(bindings, pattern.name) # None
                 THEN [ok |-> BindingsGet(bindings, pattern.name) = value,
                       bindings |-> bindings]
                 ELSE [ok |-> TRUE,
                       bindings |-> BindingsInsert(bindings, pattern.name, value)]
      [] pattern.type = "Op" /\ value.type = "Op" ->
            IF pattern.op # value.op
            THEN [ok |-> FALSE, bindings |-> bindings]
            ELSE LET l == pattern_match_impl(pattern.lhs, value.lhs, bindings)
                 IN  IF ~l.ok
                     THEN l
                     ELSE pattern_match_impl(pattern.rhs, value.rhs, l.bindings)
      [] pattern.type = "Fun" /\ value.type = "Fun" ->
            LET h == pattern_match_impl(pattern.head, value.head, bindings)
            IN  IF h.ok /\ Len(pattern.args) = Len(value.args)
                THEN pattern_match_args(pattern.args, value.args, 1, h.bindings)
                ELSE [ok |-> FALSE, bindings |-> h.bindings]
      [] OTHER -> [ok |-> FALSE, bindings |-> bindings]

\* Some(bindings) is [type |-> "Some", bindings |-> ...]
pattern_match(pattern, value) ==
    LET r == pattern_match_impl(pattern, value, EmptyBindings)
    IN  IF r.ok THEN [type |-> "Some", bindings |-> r.bindings] ELSE None

RECURSIVE substitute_bindings(_, _)
substitute_bindings(bindings, expr) ==
    CASE expr.type = "Sym" -> expr
      [] expr.type = "Var" ->
            IF BindingsGet(bindings, expr.name) # None
            THEN BindingsGet(bindings, expr.name)
            ELSE expr
      [] expr.type = "Op" ->
            Op(expr.op, substitute_bindings(bindings, expr.lhs),
                        substitute_bindings(bindings, expr.rhs))
      [] expr.type = "Fun" ->
            Fun(substitute_bindings(bindings, expr.head),
                [i \in 1..Len(expr.args) |-> substitute_bindings(bindings, expr.args[i])])

-----------------------------------------------------------------------------
(* Rule, Strategy and the rewrite engine *)

User(head, body) == [type |-> "User", head |-> head, body |-> body]
Replace == [type |-> "Replace"]

All == [type |-> "All"]
Deep == [type |-> "Deep"]
Nth(current, target) == [type |-> "Nth", current |-> current, target |-> target]

nth(target) == Nth(0, target)

\* str::parse::<usize> on the names of the model: decimal digits, an optional
\* leading `+`, leading zeros allowed; anything else is an Err (None here)
ParseUsize(x) ==
    CASE x = "0" -> [type |-> "Some", value |-> 0]
      [] x = "1" -> [type |-> "Some", value |-> 1]
      [] x = "2" -> [type |-> "Some", value |-> 2]
      [] x = "3" -> [type |-> "Some", value |-> 3]
      [] x = "4" -> [type |-> "Some", value |-> 4]
      [] x = "01" -> [type |-> "Some", value |-> 1]
      [] x = "+1" -> [type |-> "Some", value |-> 1]
      [] OTHER -> None

by_name(name) ==
    CASE name = "all" -> All
      [] name = "first" -> nth(0)
      [] name = "deep" -> Deep
      [] OTHER -> IF ParseUsize(name) = None THEN None ELSE nth(ParseUsize(name).value)

\* matched with an Nth counter that is never advanced
matched_NoAdvance(strategy) ==
    CASE strategy.type = "All" ->
            [action |-> "Apply", state |-> "Bail", strategy |-> strategy]
      [] strategy.type = "Deep" ->
            [action |-> "Apply", state |-> "Cont", strategy |-> strategy]
      [] strategy.type = "Nth" ->
            IF strategy.current = strategy.target
            THEN [action |-> "Apply", state |-> "Halt", strategy |-> strategy]
            ELSE IF strategy.current > strategy.target
                 THEN [action |-> "Skip", state |-> "Halt", strategy |-> strategy]
                 ELSE [action |-> "Skip", state |-> "Cont", strategy |-> strategy]

\* Strategy::matched if All went on into the rewritten expression
matched_AllCont(strategy) ==
    CASE strategy.type = "All" ->
            [action |-> "Apply", state |-> "Cont", strategy |-> strategy]
      [] strategy.type = "Deep" ->
            [action |-> "Apply", state |-> "Cont", strategy |-> strategy]
      [] strategy.type = "Nth" ->
            IF strategy.current = strategy.target
            THEN [action |-> "Apply", state |-> "Halt", strategy |-> strategy]
            ELSE IF strategy.current > strategy.target
                 THEN [action |-> "Skip", state |-> "Halt", strategy |-> strategy]
                 ELSE [action |-> "Skip", state |-> "Cont",
                       strategy |-> Nth(strategy.current + 1, strategy.target)]

\* Strategy::matched(&mut self): the Resolution and the strategy as the call leaves it
matched(strategy) ==
    CASE strategy.type = "All" ->
            [action |-> "Apply", state |-> "Bail", strategy |-> strategy]
      [] strategy.type = "Deep" ->
            [action |-> "Apply", state |-> "Cont", strategy |-> strategy]
      [] strategy.type = "Nth" ->
            IF strategy.current = strategy.target
            THEN [action |-> "Apply", state |-> "Halt", strategy |-> strategy]
            ELSE IF strategy.current > strategy.target
                 THEN [action |-> "Skip", state |-> "Halt", strategy |-> strategy]
                 ELSE [action |-> "Skip", state |-> "Cont",
                       strategy |-> Nth(strategy.current + 1, strategy.target)]

\* What a run of the engine has done so far: the Resolution of every match
\* site visited and the `expr` argument of every apply_impl call, in order
NewLog == [sites |-> <<>>, calls |-> <<>>]

\* The Resolution of a match site, as the engine's run records it
Visit(log, resolution) ==
    [log EXCEPT !.sites = Append(@, [action |-> resolution.action,
                                     state |-> resolution.state])]

\* A call of apply_impl on expr, as the engine's run records it
Enter(log, expr) == [log EXCEPT !.calls = Append(@, expr)]

\* Results of the recursive helpers: Ok((expr, halt)) with the strategy as the
\* call leaves it and the run so far, or Err(err).
\* err = "Diverged" means the recursion nested deeper than MaxDepth calls of
\* apply_impl: the model follows it no further.
OkRes(expr, halt, strategy, log) ==
    [err |-> "Ok", expr |-> expr, halt |-> halt, strategy |-> strategy, log |-> log]
ErrRes(err, strategy, log) ==
    [err |-> err, expr |-> None, halt |-> FALSE, strategy |-> strategy, log |-> log]

\* expr!(apply_rule(Strategy, Head, Body, Expr))
MetaPattern ==
    Fun(var_or_sym_based_on_name("apply_rule"),
        <<var_or_sym_based_on_name("Strategy"), var_or_sym_based_on_name("Head"),
          var_or_sym_based_on_name("Body"), var_or_sym_based_on_name("Expr")>>)

RECURSIVE apply_impl(_, _, _, _, _)
RECURSIVE apply_to_subexprs(_, _, _, _, _)
RECURSIVE apply_to_args(_, _, _, _, _, _, _, _)

\* the `for arg in args` loop of the Fun arm, from index i (1-based); the
\* halt of its result is halt_args as the loop leaves it
apply_to_args(rule, args, i, new_args, halt_args, strategy, log, depth) ==
    IF i > Len(args)
    THEN OkRes(new_args, halt_args, strategy, log)
    ELSE IF halt_args
         THEN apply_to_args(rule, args, i + 1, Append(new_args, args[i]),
                            halt_args, strategy, log, depth)
         ELSE LET r == apply_impl(rule, args[i], strategy, log, depth)
              IN  IF r.err # "Ok"
                  THEN r
                  ELSE apply_to_args(rule, args, i + 1, Append(new_args, r.expr),
                                     r.halt, r.strategy, r.log, depth)

\* apply_to_subexprs if a Fun handed the halt of its arguments to its caller
apply_to_subexprs_ArgsHalt(rule, expr, strategy, log, depth) ==
    CASE expr.type \in {"Sym", "Var"} -> OkRes(expr, FALSE, strategy, log)
      [] expr.type = "Op" ->
            LET l == apply_impl(rule, expr.lhs, strategy, log, depth)
            IN  IF l.err # "Ok"
                THEN l
                ELSE IF l.halt
                     THEN OkRes(Op(expr.op, l.expr, expr.rhs), TRUE, l.strategy, l.log)
                     ELSE LET r == apply_impl(rule, expr.rhs, l.strategy, l.log, depth)
                          IN  IF r.err # "Ok"
                              THEN r
                              ELSE OkRes(Op(expr.op, l.expr, r.expr), r.halt,
                                         r.strategy, r.log)
      [] expr.type = "Fun" ->
            LET h == apply_impl(rule, expr.head, strategy, log, depth)
            IN  IF h.err # "Ok"
                THEN h
                ELSE IF h.halt
                     THEN OkRes(Fun(h.expr, expr.args), TRUE, h.strategy, h.log)
                     ELSE LET r == apply_to_args(rule, expr.args, 1, <<>>, FALSE,
                                                 h.strategy, h.log, depth)
                          IN  IF r.err # "Ok"
                              THEN r
                              ELSE OkRes(Fun(h.expr, r.expr), r.halt, r.strategy, r.log)

apply_to_subexprs(rule, expr, strategy, log, depth) ==
    CASE expr.type \in {"Sym", "Var"} -> OkRes(expr, FALSE, strategy, log)
      [] expr.type = "Op" ->
            LET l == apply_impl(rule, expr.lhs, strategy, log, depth)
            IN  IF l.err # "Ok"
                THEN l
                ELSE IF l.halt
                     THEN OkRes(Op(expr.op, l.expr, expr.rhs), TRUE, l.strategy, l.log)
                     ELSE LET r == apply_impl(rule, expr.rhs, l.strategy, l.log, depth)
                          IN  IF r.err # "Ok"
                              THEN r
                              ELSE OkRes(Op(expr.op, l.expr, r.expr), r.halt,
                                         r.strategy, r.log)
      [] expr.type = "Fun" ->
            LET h == apply_impl(rule, expr.head, strategy, log, depth)
            IN  IF h.err # "Ok"
                THEN h
                ELSE IF h.halt
                     THEN OkRes(Fun(h.expr, expr.args), TRUE, h.strategy, h.log)
                     ELSE LET r == apply_to_args(rule, expr.args, 1, <<>>, FALSE,
                                                 h.strategy, h.log, depth)
                          IN  IF r.err # "Ok"
                              THEN r
                              ELSE OkRes(Fun(h.expr, r.expr), FALSE, r.strategy, r.log)

\* apply_impl if a rewritten meta-rule node raised the halt flag
apply_impl_MetaHalts(rule, expr, strategy, log, depth) ==
    IF depth >= MaxDepth
    THEN ErrRes("Diverged", strategy, log)
    ELSE
    CASE rule.type = "User" ->
            LET m == pattern_match(rule.head, expr)
            IN  IF m # None
                THEN LET resolution == matched(strategy)
                         new_expr == IF resolution.action = "Apply"
                                     THEN substitute_bindings(m.bindings, rule.body)
                                     ELSE expr
                     IN  CASE resolution.state = "Bail" ->
                                 OkRes(new_expr, FALSE, resolution.strategy,
                                       Visit(Enter(log, expr), resolution))
                           [] resolution.state = "Cont" ->
                                 apply_to_subexprs(rule, new_expr, resolution.strategy,
                                                   Visit(Enter(log, expr), resolution), depth + 1)
                           [] resolution.state = "Halt" ->
                                 OkRes(new_expr, TRUE, resolution.strategy,
                                       Visit(Enter(log, expr), resolution))
                ELSE apply_to_subexprs(rule, expr, strategy, Enter(log, expr), depth + 1)
      [] rule.type = "Replace" ->
            LET m == pattern_match(MetaPattern, expr)
            IN  IF m # None
                THEN LET meta_rule == User(m.bindings["Head"], m.bindings["Body"])
                         meta_strategy == m.bindings["Strategy"]
                         meta_expr == m.bindings["Expr"]
                     IN  IF meta_strategy.type = "Sym"
                         THEN IF by_name(meta_strategy.name) # None
                              THEN LET result == apply_impl(meta_rule, meta_expr,
                                                     by_name(meta_strategy.name),
                                                     Enter(log, expr), depth + 1)
                                   IN  IF result.err # "Ok"
                                       THEN ErrRes(result.err, strategy, result.log)
                                       ELSE OkRes(result.expr, TRUE, strategy,
                                                  result.log)
                              ELSE ErrRes("UnknownStrategy", strategy, Enter(log, expr))
                         ELSE ErrRes("StrategyIsNotSym", strategy, Enter(log, expr))
                ELSE apply_to_subexprs(rule, expr, strategy, Enter(log, expr), depth + 1)

\* depth is the number of apply_impl calls this one is nested in
apply_impl(rule, expr, strategy, log, depth) ==
    IF depth >= MaxDepth
    THEN ErrRes("Diverged", strategy, log)
    ELSE
    CASE rule.type = "User" ->
            LET m == pattern_match(rule.head, expr)
            IN  IF m # None
                THEN LET resolution == matched(strategy)
                         new_expr == IF resolution.action = "Apply"
                                     THEN substitute_bindings(m.bindings, rule.body)
                                     ELSE expr
                     IN  CASE resolution.state = "Bail" ->
                                 OkRes(new_expr, FALSE, resolution.strategy,
                                       Visit(Enter(log, expr), resolution))
                           [] resolution.state = "Cont" ->
                                 apply_to_subexprs(rule, new_expr, resolution.strategy,
                                                   Visit(Enter(log, expr), resolution), depth + 1)
                           [] resolution.state = "Halt" ->
                                 OkRes(new_expr, TRUE, resolution.strategy,
                                       Visit(Enter(log, expr), resolution))
                ELSE apply_to_subexprs(rule, expr, strategy, Enter(log, expr), depth + 1)
      [] rule.type = "Replace" ->
            LET m == pattern_match(MetaPattern, expr)
            IN  IF m # None
                THEN LET meta_rule == User(m.bindings["Head"], m.bindings["Body"])
                         meta_strategy == m.bindings["Strategy"]
                         meta_expr == m.bindings["Expr"]
                     IN  IF meta_strategy.type = "Sym"
                         THEN IF by_name(meta_strategy.name) # None
                              THEN LET result == apply_impl(meta_rule, meta_expr,
                                                     by_name(meta_strategy.name),
                                                     Enter(log, expr), depth + 1)
                                   IN  IF result.err # "Ok"
                                       THEN ErrRes(result.err, strategy, result.log)
                                       ELSE OkRes(result.expr, FALSE, strategy,
                                                  result.log)
                              ELSE ErrRes("UnknownStrategy", strategy, Enter(log, expr))
                         ELSE ErrRes("StrategyIsNotSym", strategy, Enter(log, expr))
                ELSE apply_to_subexprs(rule, expr, strategy, Enter(log, expr), depth + 1)

\* Rule::apply: Ok(expr) or Err(err); with it the strategy as the run leaves
\* the caller's, the log of the match sites the run visited and the calls it
\* made, and the halt flag that Rule::apply drops
RuleApply(rule, expr, strategy) == apply_impl(rule, expr, strategy, NewLog, 0)

-----------------------------------------------------------------------------
(* AppliedRule and Context *)

ByName(name, reversed) == [type |-> "ByName", name |-> name, reversed |-> reversed]
Anonymous(head, body) == [type |-> "Anonymous", head |-> head, body |-> body]

\* HashMap::get on Context.rules
RulesGet(rs, name) == IF name \in DOMAIN rs THEN rs[name] ELSE None

\* Context::materialize_applied_rule: Ok(rule) or Err(err)
materialize_applied_rule(rs, applied_rule) ==
    CASE applied_rule.type = "ByName" ->
            LET rule == RulesGet(rs, applied_rule.name)
            IN  IF rule # None
                THEN IF applied_rule.reversed
                     THEN CASE rule.type = "User" ->
                                 [err |-> "Ok", rule |-> User(rule.body, rule.head)]
                            [] rule.type = "Replace" ->
                                 [err |-> "IrreversibleRule", rule |-> None]
                     ELSE [err |-> "Ok", rule |-> rule]
                ELSE [err |-> "RuleDoesNotExist", rule |-> None]
      [] applied_rule.type = "Anonymous" ->
            [err |-> "Ok", rule |-> User(applied_rule.head, applied_rule.body)]

\* the ApplyRule arm with the strategy resolved before the rule is materialized
ApplyRuleResult_StrategyFirst(rs, expr, strategy_name, applied_rule) ==
    IF expr # None
    THEN IF by_name(strategy_name) # None
         THEN LET m == materialize_applied_rule(rs, applied_rule)
              IN  IF m.err # "Ok"
                  THEN [err |-> m.err, expr |-> None]
                  ELSE LET r == RuleApply(m.rule, expr, by_name(strategy_name))
                       IN  [err |-> r.err, expr |-> r.expr]
         ELSE [err |-> "UnknownStrategy", expr |-> None]
    ELSE [err |-> "NoShapingInPlace", expr |-> None]

\* the ApplyRule arm of process_command up to the println!: Ok(new_expr) or Err(err)
ApplyRuleResult(rs, expr, strategy_name, applied_rule) ==
    IF expr # None
    THEN LET m == materialize_applied_rule(rs, applied_rule)
         IN  IF m.err # "Ok"
             THEN [err |-> m.err, expr |-> None]
             ELSE IF by_name(strategy_name) # None
                  THEN LET r == RuleApply(m.rule, expr, by_name(strategy_name))
                       IN  [err |-> r.err, expr |-> r.expr]
                  ELSE [err |-> "UnknownStrategy", expr |-> None]
    ELSE [err |-> "NoShapingInPlace", expr |-> None]

-----------------------------------------------------------------------------
(* The inputs of the model *)

a == Sym("a")
b == Sym("b")
c == Sym("c")
X == Var("X")

\* the expressions a session is started on
ShapeExprs ==
    { a,
      Fun(Sym("f"), <<a, b, c>>),
      Fun(Sym("f"), <<Fun(Sym("g"), <<a>>), a>>),
      Fun(Sym("apply_rule"), <<Sym("bogus"), a, b, a>>),
      Fun(Sym("apply_rule"), <<X, a, b, a>>) }

\* the rules that are defined by name or applied anonymously
RulePool ==
    { User(X, Fun(Sym("pair"), <<X, X>>)),
      User(a, b) }

RuleNames == {"replace", "dup"}
AppliedNames == {"replace", "dup", "nope"}
StrategyNames == {"all", "first", "1", "deep", "bogus"}

AppliedRules ==
    { ByName(n, r) : n \in AppliedNames, r \in BOOLEAN }
    \cup { Anonymous(r.head, r.body) : r \in RulePool }

-----------------------------------------------------------------------------
(* Context::new and Context::process_command, one action per command *)

Result(kind, err) == [kind |-> kind, err |-> err]

CtxInit ==
    /\ rules = [n \in {"replace"} |-> Replace]
    /\ current_expr = None
    /\ shaping_history = <<>>
    /\ quit = FALSE
    /\ last = Result("None", "Ok")
    /\ shaped = None
    /\ out = <<>>
    /\ net_applies = 0

LineIdle == reported = "None"
PxIdle == px_tokens = <<>> /\ px_result = None
DpIdle == dp_expr = None /\ dp_result = None
PmIdle == pm_pattern = None /\ pm_value = None /\ pm_result = None
ApIdle == ap_rule = None /\ ap_expr = None /\ ap_strategy = None /\ ap_result = None

\* DefineRule with the insert made before the check of the name
DefineRule_Overwrite(rule_name, rule) ==
    /\ rules' = [n \in DOMAIN rules \cup {rule_name} |->
                    IF n = rule_name THEN rule ELSE rules[n]]
    /\ IF RulesGet(rules, rule_name) # None
       THEN last' = Result("DefineRule", "RuleAlreadyExists")
       ELSE last' = Result("DefineRule", "Ok")
    /\ out' = <<>>
    /\ UNCHANGED <<current_expr, shaping_history, quit, shaped, net_applies>>

DefineRule(rule_name, rule) ==
    /\ IF RulesGet(rules, rule_name) # None
       THEN /\ last' = Result("DefineRule", "RuleAlreadyExists")
            /\ UNCHANGED rules
       ELSE /\ rules' = [n \in DOMAIN rules \cup {rule_name} |->
                            IF n = rule_name THEN rule ELSE rules[n]]
            /\ last' = Result("DefineRule", "Ok")
    /\ out' = <<>>
    /\ UNCHANGED <<current_expr, shaping_history, quit, shaped, net_applies>>

\* StartShaping with the line written before the session is looked at
StartShaping_PrintFirst(expr) ==
    /\ out' = <<Line(expr)>>
    /\ IF current_expr # None
       THEN /\ last' = Result("StartShaping", "AlreadyShaping")
            /\ UNCHANGED <<current_expr, shaped, net_applies>>
       ELSE /\ current_expr' = expr
            /\ shaped' = expr
            /\ net_applies' = 0
            /\ last' = Result("StartShaping", "Ok")
    /\ UNCHANGED <<rules, shaping_history, quit>>

StartShaping(expr) ==
    /\ IF current_expr # None
       THEN /\ last' = Result("StartShaping", "AlreadyShaping")
            /\ out' = <<>>
            /\ UNCHANGED <<current_expr, shaped, net_applies>>
       ELSE /\ current_expr' = expr
            /\ shaped' = expr
            /\ out' = <<Line(expr)>>
            /\ net_applies' = 0
            /\ last' = Result("StartShaping", "Ok")
    /\ UNCHANGED <<rules, shaping_history, quit>>

\* ApplyRule with the new expression pushed instead of the old one
ApplyRule_PushNew(strategy_name, applied_rule) ==
    /\ Len(shaping_history) < MaxHistory
    /\ LET r == ApplyRuleResult(rules, current_expr, strategy_name, applied_rule)
       IN  /\ r.err # "Diverged"
           /\ IF r.err = "Ok"
              THEN /\ shaping_history' = Append(shaping_history, r.expr)
                   /\ current_expr' = r.expr
              ELSE UNCHANGED <<current_expr, shaping_history>>
           /\ IF r.err = "Ok"
              THEN out' = <<Line(r.expr)>> /\ net_applies' = net_applies + 1
              ELSE out' = <<>> /\ UNCHANGED net_applies
           /\ last' = Result("ApplyRule", r.err)
    /\ UNCHANGED <<rules, quit, shaped>>

\* ApplyRule with the snapshot pushed before the fallible steps
ApplyRule_PushEarly(strategy_name, applied_rule) ==
    /\ Len(shaping_history) < MaxHistory
    /\ LET r == ApplyRuleResult(rules, current_expr, strategy_name, applied_rule)
       IN  /\ r.err # "Diverged"
           /\ shaping_history' = IF current_expr # None
                                 THEN Append(shaping_history, current_expr)
                                 ELSE shaping_history
           /\ IF r.err = "Ok"
              THEN current_expr' = r.expr
              ELSE UNCHANGED current_expr
           /\ IF r.err = "Ok"
              THEN out' = <<Line(r.expr)>> /\ net_applies' = net_applies + 1
              ELSE out' = <<>> /\ UNCHANGED net_applies
           /\ last' = Result("ApplyRule", r.err)
    /\ UNCHANGED <<rules, quit, shaped>>

\* ApplyRule that takes no snapshot when the rewrite changed nothing
ApplyRule_SkipNoop(strategy_name, applied_rule) ==
    /\ Len(shaping_history) < MaxHistory
    /\ LET r == ApplyRuleResult(rules, current_expr, strategy_name, applied_rule)
       IN  /\ r.err # "Diverged"
           /\ IF r.err = "Ok" /\ r.expr # current_expr
              THEN /\ shaping_history' = Append(shaping_history, current_expr)
                   /\ current_expr' = r.expr
              ELSE UNCHANGED <<current_expr, shaping_history>>
           /\ IF r.err = "Ok"
              THEN out' = <<Line(r.expr)>> /\ net_applies' = net_applies + 1
              ELSE out' = <<>> /\ UNCHANGED net_applies
           /\ last' = Result("ApplyRule", r.err)
    /\ UNCHANGED <<rules, quit, shaped>>

\* a rewrite that nests deeper than MaxDepth does not return; the history the
\* model follows holds at most MaxHistory snapshots
ApplyRule(strategy_name, applied_rule) ==
    /\ Len(shaping_history) < MaxHistory
    /\ LET r == ApplyRuleResult(rules, current_expr, strategy_name, applied_rule)
       IN  /\ r.err # "Diverged"
           /\ IF r.err = "Ok"
              THEN /\ shaping_history' = Append(shaping_history, current_expr)
                   /\ current_expr' = r.expr
              ELSE UNCHANGED <<current_expr, shaping_history>>
           /\ IF r.err = "Ok"
              THEN out' = <<Line(r.expr)>> /\ net_applies' = net_applies + 1
              ELSE out' = <<>> /\ UNCHANGED net_applies
           /\ last' = Result("ApplyRule", r.err)
    /\ UNCHANGED <<rules, quit, shaped>>

\* FinishShaping without shaping_history.clear()
FinishShaping_KeepHistory ==
    /\ IF current_expr # None
       THEN /\ current_expr' = None
            /\ shaped' = None
            /\ last' = Result("FinishShaping", "Ok")
            /\ UNCHANGED shaping_history
       ELSE /\ last' = Result("FinishShaping", "NoShapingInPlace")
            /\ UNCHANGED <<current_expr, shaping_history, shaped>>
    /\ out' = <<>>
    /\ UNCHANGED <<rules, quit, net_applies>>

FinishShaping ==
    /\ IF current_expr # None
       THEN /\ current_expr' = None
            /\ shaping_history' = <<>>
            /\ shaped' = None
            /\ last' = Result("FinishShaping", "Ok")
       ELSE /\ last' = Result("FinishShaping", "NoShapingInPlace")
            /\ UNCHANGED <<current_expr, shaping_history, shaped>>
    /\ out' = <<>>
    /\ UNCHANGED <<rules, quit, net_applies>>

\* UndoRule with the history popped before the session is looked at
UndoRule_HistoryFirst ==
    /\ IF shaping_history # <<>>
       THEN /\ current_expr' = shaping_history[Len(shaping_history)]
            /\ shaping_history' = SubSeq(shaping_history, 1, Len(shaping_history) - 1)
            /\ out' = <<Line(shaping_history[Len(shaping_history)])>>
            /\ net_applies' = net_applies - 1
            /\ last' = Result("UndoRule", "Ok")
       ELSE /\ last' = Result("UndoRule", "NoHistory")
            /\ out' = <<>>
            /\ UNCHANGED <<current_expr, shaping_history, net_applies>>
    /\ UNCHANGED <<rules, quit, shaped>>

UndoRule ==
    /\ IF current_expr # None
       THEN IF shaping_history # <<>>
            THEN /\ current_expr' = shaping_history[Len(shaping_history)]
                 /\ shaping_history' = SubSeq(shaping_history, 1, Len(shaping_history) - 1)
                 /\ out' = <<Line(shaping_history[Len(shaping_history)])>>
                 /\ net_applies' = net_applies - 1
                 /\ last' = Result("UndoRule", "Ok")
            ELSE /\ last' = Result("UndoRule", "NoHistory")
                 /\ out' = <<>>
                 /\ UNCHANGED <<current_expr, shaping_history, net_applies>>
       ELSE /\ last' = Result("UndoRule", "NoShapingInPlace")
            /\ out' = <<>>
            /\ UNCHANGED <<current_expr, shaping_history, net_applies>>
    /\ UNCHANGED <<rules, quit, shaped>>

Quit ==
    /\ quit' = TRUE
    /\ last' = Result("Quit", "Ok")
    /\ out' = <<>>
    /\ UNCHANGED <<rules, current_expr, shaping_history, shaped, net_applies>>

DeleteRule(name) ==
    /\ IF name \in DOMAIN rules
       THEN /\ rules' = [n \in DOMAIN rules \ {name} |-> rules[n]]
            /\ last' = Result("DeleteRule", "Ok")
       ELSE /\ last' = Result("DeleteRule", "RuleDoesNotExist")
            /\ UNCHANGED rules
    /\ out' = <<>>
    /\ UNCHANGED <<current_expr, shaping_history, quit, shaped, net_applies>>

-----------------------------------------------------------------------------
(* start_repl: commands arrive one at a time while quit is false; an error is
   reported and the loop goes on *)

Init ==
    CtxInit /\ LineIdle /\ script = <<>> /\ pos = 0 /\ PmIdle /\ ApIdle /\ PxIdle /\ DpIdle

ReplDefineRule ==
    /\ ~quit
    /\ \E n \in RuleNames, r \in RulePool : DefineRule(n, r)
    /\ UNCHANGED <<line_vars, file_vars, pm_vars, ap_vars, px_vars, dp_vars>>

ReplStartShaping ==
    /\ ~quit
    /\ \E e \in ShapeExprs : StartShaping(e)
    /\ UNCHANGED <<line_vars, file_vars, pm_vars, ap_vars, px_vars, dp_vars>>

ReplApplyRule ==
    /\ ~quit
    /\ \E s \in StrategyNames, r \in AppliedRules : ApplyRule(s, r)
    /\ UNCHANGED <<line_vars, file_vars, pm_vars, ap_vars, px_vars, dp_vars>>

ReplFinishShaping ==
    /\ ~quit
    /\ FinishShaping
    /\ UNCHANGED <<line_vars, file_vars, pm_vars, ap_vars, px_vars, dp_vars>>

ReplUndoRule ==
    /\ ~quit
    /\ UndoRule
    /\ UNCHANGED <<line_vars, file_vars, pm_vars, ap_vars, px_vars, dp_vars>>

ReplQuit ==
    /\ ~quit
    /\ Quit
    /\ UNCHANGED <<line_vars, file_vars, pm_vars, ap_vars, px_vars, dp_vars>>

ReplDeleteRule ==
    /\ ~quit
    /\ \E n \in AppliedNames : DeleteRule(n)
    /\ UNCHANGED <<line_vars, file_vars, pm_vars, ap_vars, px_vars, dp_vars>>

Next ==
    \/ ReplDefineRule
    \/ ReplStartShaping
    \/ ReplApplyRule
    \/ ReplFinishShaping
    \/ ReplUndoRule
    \/ ReplQuit
    \/ ReplDeleteRule

Spec == Init /\ [][Next]_vars

-----------------------------------------------------------------------------
(* interpret_file: the commands of a file are processed in order until quit,
   the end of the file or the first error (exit(1)) *)

CmdDefineRule(name, rule) == [kind |-> "DefineRule", name |-> name, rule |-> rule]
CmdStartShaping(expr) == [kind |-> "StartShaping", expr |-> expr]
CmdApplyRule(strategy_name, applied_rule) ==
    [kind |-> "ApplyRule", strategy_name |-> strategy_name, applied_rule |-> applied_rule]
CmdFinishShaping == [kind |-> "FinishShaping"]
CmdUndoRule == [kind |-> "UndoRule"]
CmdQuit == [kind |-> "Quit"]
CmdDeleteRule(name) == [kind |-> "DeleteRule", name |-> name]

\* what a file does to the rule table before it starts shaping
Preludes ==
    { <<>>, <<CmdDeleteRule("replace")>> }
    \cup { <<CmdDefineRule("dup", r)>> : r \in RulePool }

\* the files of the model: shape, apply, undo, undo after a prelude, and one
\* file that finishes a session and quits
Scripts ==
    { p \o <<CmdStartShaping(e), CmdApplyRule(s, r), CmdUndoRule, CmdUndoRule>> :
        p \in Preludes, e \in ShapeExprs, s \in StrategyNames, r \in AppliedRules }
    \cup { <<CmdStartShaping(a), CmdFinishShaping, CmdQuit, CmdUndoRule>> }

FileInit ==
    CtxInit /\ LineIdle /\ script \in Scripts /\ pos = 0 /\ PmIdle /\ ApIdle /\ PxIdle /\ DpIdle

\* the loop condition of interpret_file, and no exit(1) so far
FileReady(kind) ==
    /\ ~quit
    /\ pos < Len(script)
    /\ last.err = "Ok"
    /\ script[pos + 1].kind = kind

FileDefineRule ==
    /\ FileReady("DefineRule")
    /\ DefineRule(script[pos + 1].name, script[pos + 1].rule)
    /\ pos' = pos + 1
    /\ UNCHANGED <<script, line_vars, pm_vars, ap_vars, px_vars, dp_vars>>

FileStartShaping ==
    /\ FileReady("StartShaping")
    /\ StartShaping(script[pos + 1].expr)
    /\ pos' = pos + 1
    /\ UNCHANGED <<script, line_vars, pm_vars, ap_vars, px_vars, dp_vars>>

FileApplyRule ==
    /\ FileReady("ApplyRule")
    /\ ApplyRule(script[pos + 1].strategy_name, script[pos + 1].applied_rule)
    /\ pos' = pos + 1
    /\ UNCHANGED <<script, line_vars, pm_vars, ap_vars, px_vars, dp_vars>>

FileFinishShaping ==
    /\ FileReady("FinishShaping")
    /\ FinishShaping
    /\ pos' = pos + 1
    /\ UNCHANGED <<script, line_vars, pm_vars, ap_vars, px_vars, dp_vars>>

FileUndoRule ==
    /\ FileReady("UndoRule")
    /\ UndoRule
    /\ pos' = pos + 1
    /\ UNCHANGED <<script, line_vars, pm_vars, ap_vars, px_vars, dp_vars>>

FileQuit ==
    /\ FileReady("Quit")
    /\ Quit
    /\ pos' = pos + 1
    /\ UNCHANGED <<script, line_vars, pm_vars, ap_vars, px_vars, dp_vars>>

FileDeleteRule ==
    /\ FileReady("DeleteRule")
    /\ DeleteRule(script[pos + 1].name)
    /\ pos' = pos + 1
    /\ UNCHANGED <<script, line_vars, pm_vars, ap_vars, px_vars, dp_vars>>

FileNext ==
    \/ FileDefineRule
    \/ FileStartShaping
    \/ FileApplyRule
    \/ FileFinishShaping
    \/ FileUndoRule
    \/ FileQuit
    \/ FileDeleteRule

SpecFile == FileInit /\ [][FileNext]_vars

-----------------------------------------------------------------------------
(* pattern_match on bounded patterns and values *)

\* Fun nodes of the bounded sets take at most this many arguments
MaxArgs == 2

Atoms == {a, b, X, Var("_")}
Heads == {Sym("f"), X}

ArgSeqs(S) == UNION { [1..n -> S] : n \in 0..MaxArgs }

\* the atoms, and the Fun and Op nodes over them
Depth1 ==
    Atoms
    \cup { Fun(h, args) : h \in Heads, args \in ArgSeqs(Atoms) }
    \cup { Op(o, l, r) : o \in {"Add", "Mul"}, l \in Atoms, r \in Atoms }

Nested ==
    { Fun(Sym("f"), <<Fun(Sym("g"), <<a>>), a>>),
      Fun(Sym("f"), <<Fun(X, <<Var("_")>>), X>>),
      Op("Add", Op("Mul", a, b), Op("Mul", a, b)),
      Op("Add", Op("Mul", X, Var("_")), X) }

MatchExprs == Depth1 \cup Nested

Pending == [type |-> "Pending"]

MatchInit ==
    /\ CtxInit /\ LineIdle /\ script = <<>> /\ pos = 0 /\ ApIdle /\ PxIdle /\ DpIdle
    /\ pm_pattern \in MatchExprs
    /\ pm_value \in MatchExprs
    /\ pm_result = Pending

Match ==
    /\ pm_result = Pending
    /\ pm_result' = pattern_match(pm_pattern, pm_value)
    /\ UNCHANGED <<pm_pattern, pm_value, ctx_vars, line_vars, file_vars, ap_vars, px_vars,
                   dp_vars>>

SpecMatch == MatchInit /\ [][Match]_vars

-----------------------------------------------------------------------------
(* Rule::apply on bounded rules, expressions and strategies *)

x == Sym("x")
y == Sym("y")

ApplyRules ==
    RulePool
    \cup { User(X, Fun(Sym("f"), <<X>>)),
           User(Op("Add", Var("A"), Var("B")), Op("Add", Var("B"), Var("A"))),
           Replace }

ApplyExprs ==
    ShapeExprs
    \cup { Op("Add", a, a),
           Op("Add", Op("Add", a, a), a),
           Op("Add", Fun(Sym("g"), <<a>>), a),
           Fun(a, <<a, a>>),
           Fun(Sym("apply_rule"),
               <<Sym("all"), Op("Add", Var("A"), Var("B")), Op("Add", Var("B"), Var("A")),
                 Op("Add", x, y)>>),
           Fun(Sym("f"),
               <<Fun(Sym("apply_rule"), <<Sym("first"), a, b, Op("Add", a, a)>>),
                 Fun(Sym("apply_rule"), <<Sym("all"), a, b, Op("Add", a, a)>>)>>),
           Op("Add", Fun(Sym("apply_rule"), <<Sym("first"), a, b, Op("Add", a, a)>>),
                   Fun(Sym("apply_rule"), <<Sym("all"), a, b, Op("Add", a, a)>>)),
           Fun(Sym("apply_rule"), <<Sym("deep"), X, Fun(Sym("f"), <<X>>), a>>),
           Fun(Sym("f"), <<a, a>>) }

KnownStrategies == {"all", "first", "deep", "0", "1", "2", "3"}

ApplyInit ==
    /\ CtxInit /\ LineIdle /\ script = <<>> /\ pos = 0 /\ PmIdle /\ PxIdle /\ DpIdle
    /\ ap_rule \in ApplyRules
    /\ ap_expr \in ApplyExprs
    /\ ap_strategy \in KnownStrategies
    /\ ap_result = Pending

Apply ==
    /\ ap_result = Pending
    /\ ap_result' = RuleApply(ap_rule, ap_expr, by_name(ap_strategy))
    /\ UNCHANGED <<ap_rule, ap_expr, ap_strategy, ctx_vars, line_vars, file_vars, pm_vars,
                   px_vars, dp_vars>>

SpecApply == ApplyInit /\ [][Apply]_vars

-----------------------------------------------------------------------------
(* Display for Expr on its own: an expression is written once *)

f_a == Fun(Sym("f"), <<a>>)

DisplayExprs ==
    MatchExprs
    \cup { Fun(f_a, <<b>>),
           Fun(Fun(f_a, <<b>>), <<c>>),
           Fun(Op("Add", a, b), <<c>>),
           Fun(Op("Mul", a, b), <<>>),
           Fun(X, <<Op("Add", a, b), Op("Pow", a, b)>>),
           Op("Sub", Op("Sub", a, b), c),
           Op("Sub", a, Op("Sub", b, c)),
           Op("Mul", Op("Add", a, b), c),
           Op("Add", Op("Mul", a, b), Op("Pow", a, b)),
           Op("Pow", f_a, Op("Div", a, b)) }

DisplayInit ==
    /\ CtxInit /\ LineIdle /\ script = <<>> /\ pos = 0 /\ PmIdle /\ ApIdle /\ PxIdle
    /\ dp_expr \in DisplayExprs
    /\ dp_result = Pending

Format ==
    /\ dp_result = Pending
    /\ dp_result' = [type |-> "Written", text |-> Display(dp_expr)]
    /\ UNCHANGED <<dp_expr, ctx_vars, line_vars, file_vars, pm_vars, ap_vars, px_vars>>

SpecDisplay == DisplayInit /\ [][Format]_vars

-----------------------------------------------------------------------------
(* The token stream and the parsers *)

\* the parsers are followed through this many `reverse` keywords
MaxReverse == 3

Tok(kind, text) == [kind |-> kind, text |-> text]
Ident(text) == Tok("Ident", text)
End == Tok("End", "")

\* Lexer::peek_token on the tokens that are left; End once they are used up
peek_token(lexer) == IF lexer = <<>> THEN End ELSE Head(lexer)

\* the tokens that are left after Lexer::next_token
next_token(lexer) == IF lexer = <<>> THEN <<>> ELSE Tail(lexer)

\* Result<T, SyntaxError> and the lexer as the parser leaves it
ParseOk(value, lexer) == [err |-> "Ok", value |-> value, lexer |-> lexer]
ParseErr(err, lexer) == [err |-> err, value |-> None, lexer |-> lexer]

expect_token_kind(lexer, kind) ==
    LET token == peek_token(lexer)
    IN  IF kind = token.kind
        THEN ParseOk(token, next_token(lexer))
        ELSE ParseErr("ExpectedToken", next_token(lexer))

from_token_kind(kind) ==
    CASE kind = "Plus" -> [type |-> "Some", value |-> "Add"]
      [] kind = "Dash" -> [type |-> "Some", value |-> "Sub"]
      [] kind = "Asterisk" -> [type |-> "Some", value |-> "Mul"]
      [] kind = "Slash" -> [type |-> "Some", value |-> "Div"]
      [] kind = "Caret" -> [type |-> "Some", value |-> "Pow"]
      [] OTHER -> None

RECURSIVE parse_binary_operator(_, _)
RECURSIVE BinaryLoop(_, _, _)
RECURSIVE parse_fun_or_var_or_sym(_)
RECURSIVE FunLoop(_, _)
RECURSIVE parse_fun_args(_)
RECURSIVE ArgsLoop(_, _)

\* Expr::parse
ExprParse(lexer) == parse_binary_operator(lexer, 0)

\* parse_fun_args from its `while` loop on
ArgsLoop(lexer, args) ==
    IF peek_token(lexer).kind = "Comma"
    THEN LET r == ExprParse(next_token(lexer))
         IN  IF r.err # "Ok"
             THEN r
             ELSE ArgsLoop(r.lexer, Append(args, r.value))
    ELSE LET close_paren == peek_token(lexer)
         IN  IF close_paren.kind = "CloseParen"
             THEN ParseOk(args, next_token(lexer))
             ELSE ParseErr("ExpectedToken", next_token(lexer))

parse_fun_args(lexer) ==
    LET open == expect_token_kind(lexer, "OpenParen")
    IN  IF open.err # "Ok"
        THEN open
        ELSE IF peek_token(open.lexer).kind = "CloseParen"
             THEN ParseOk(<<>>, next_token(open.lexer))
             ELSE LET r == ExprParse(open.lexer)
                  IN  IF r.err # "Ok"
                      THEN r
                      ELSE ArgsLoop(r.lexer, <<r.value>>)

\* the `while` loop of parse_fun_or_var_or_sym
FunLoop(lexer, head) ==
    IF peek_token(lexer).kind = "OpenParen"
    THEN LET r == parse_fun_args(lexer)
         IN  IF r.err # "Ok"
             THEN r
             ELSE FunLoop(r.lexer, Fun(head, r.value))
    ELSE ParseOk(head, lexer)

parse_fun_or_var_or_sym(lexer) ==
    LET token == peek_token(lexer)
    IN  CASE token.kind = "OpenParen" ->
                LET result == ExprParse(next_token(lexer))
                IN  IF result.err # "Ok"
                    THEN result
                    ELSE LET close == expect_token_kind(result.lexer, "CloseParen")
                         IN  IF close.err # "Ok"
                             THEN close
                             ELSE FunLoop(close.lexer, result.value)
          [] token.kind = "Ident" ->
                FunLoop(next_token(lexer), var_or_sym_based_on_name(token.text))
          [] OTHER -> ParseErr("ExpectedPrimary", lexer)

\* the `while let` loop of parse_binary_operator
BinaryLoop(lexer, result, current_precedence) ==
    LET op == from_token_kind(peek_token(lexer).kind)
    IN  IF op = None
        THEN ParseOk(result, lexer)
        ELSE IF current_precedence # precedence(op.value)
             THEN ParseOk(result, lexer)
             ELSE LET rhs == parse_binary_operator(next_token(lexer), current_precedence)
                  IN  IF rhs.err # "Ok"
                      THEN rhs
                      ELSE BinaryLoop(rhs.lexer, Op(op.value, result, rhs.value),
                                      current_precedence)

parse_binary_operator(lexer, current_precedence) ==
    IF current_precedence > MAX_PRECEDENCE
    THEN parse_fun_or_var_or_sym(lexer)
    ELSE LET result == parse_binary_operator(lexer, current_precedence + 1)
         IN  IF result.err # "Ok"
             THEN result
             ELSE BinaryLoop(result.lexer, result.value, current_precedence)

\* AppliedRule::reversed with the flag set instead of flipped
reversed_SetsFlag(applied_rule) ==
    CASE applied_rule.type = "ByName" -> ByName(applied_rule.name, TRUE)
      [] applied_rule.type = "Anonymous" ->
            Anonymous(applied_rule.body, applied_rule.head)

\* AppliedRule::reversed
reversed(applied_rule) ==
    CASE applied_rule.type = "ByName" ->
            ByName(applied_rule.name, ~applied_rule.reversed)
      [] applied_rule.type = "Anonymous" ->
            Anonymous(applied_rule.body, applied_rule.head)

\* AppliedRule::parse
RECURSIVE AppliedRuleParse(_)
AppliedRuleParse(lexer) ==
    LET token == peek_token(lexer)
        rest == next_token(lexer)
    IN  CASE token.kind = "Reverse" ->
                LET r == AppliedRuleParse(rest)
                IN  IF r.err # "Ok" THEN r ELSE ParseOk(reversed(r.value), r.lexer)
          [] token.kind = "Rule" ->
                LET head == ExprParse(rest)
                IN  IF head.err # "Ok"
                    THEN head
                    ELSE LET equals == expect_token_kind(head.lexer, "Equals")
                         IN  IF equals.err # "Ok"
                             THEN equals
                             ELSE LET body == ExprParse(equals.lexer)
                                  IN  IF body.err # "Ok"
                                      THEN body
                                      ELSE ParseOk(Anonymous(head.value, body.value),
                                                   body.lexer)
          [] token.kind = "Ident" -> ParseOk(ByName(token.text, FALSE), rest)
          [] OTHER -> ParseErr("ExpectedAppliedRule", rest)

-----------------------------------------------------------------------------
\* Command::parse
CommandParse(lexer) ==
    LET keyword == peek_token(lexer)
        rest == next_token(lexer)
    IN  CASE keyword.kind = "Rule" ->
                LET name == expect_token_kind(rest, "Ident")
                IN  IF name.err # "Ok"
                    THEN name
                    ELSE LET head == ExprParse(name.lexer)
                         IN  IF head.err # "Ok"
                             THEN head
                             ELSE LET equals == expect_token_kind(head.lexer, "Equals")
                                  IN  IF equals.err # "Ok"
                                      THEN equals
                                      ELSE LET body == ExprParse(equals.lexer)
                                           IN  IF body.err # "Ok"
                                               THEN body
                                               ELSE ParseOk(CmdDefineRule(name.value.text,
                                                                User(head.value, body.value)),
                                                            body.lexer)
          [] keyword.kind = "Shape" ->
                LET expr == ExprParse(rest)
                IN  IF expr.err # "Ok"
                    THEN expr
                    ELSE ParseOk(CmdStartShaping(expr.value), expr.lexer)
          [] keyword.kind = "Apply" ->
                LET strategy_name == expect_token_kind(rest, "Ident")
                IN  IF strategy_name.err # "Ok"
                    THEN strategy_name
                    ELSE LET applied_rule == AppliedRuleParse(strategy_name.lexer)
                         IN  IF applied_rule.err # "Ok"
                             THEN applied_rule
                             ELSE ParseOk(CmdApplyRule(strategy_name.value.text,
                                                       applied_rule.value),
                                          applied_rule.lexer)
          [] keyword.kind = "Done" -> ParseOk(CmdFinishShaping, rest)
          [] keyword.kind = "Undo" -> ParseOk(CmdUndoRule, rest)
          [] keyword.kind = "Quit" -> ParseOk(CmdQuit, rest)
          [] keyword.kind = "Delete" ->
                LET name == expect_token_kind(rest, "Ident")
                IN  IF name.err # "Ok"
                    THEN name
                    ELSE ParseOk(CmdDeleteRule(name.value.text), name.lexer)
          [] OTHER -> ParseErr("ExpectedCommand", rest)

-----------------------------------------------------------------------------
(* Expr::parse and AppliedRule::parse on bounded token streams *)

Plus == Tok("Plus", "+")
Dash == Tok("Dash", "-")
Asterisk == Tok("Asterisk", "*")
Slash == Tok("Slash", "/")
Caret == Tok("Caret", "^")
OpenParen == Tok("OpenParen", "(")
CloseParen == Tok("CloseParen", ")")
Comma == Tok("Comma", ",")
Equals == Tok("Equals", "=")
KwRule == Tok("Rule", "rule")
KwReverse == Tok("Reverse", "reverse")

OpTokens == {Plus, Dash, Asterisk, Slash, Caret}

\* n times the keyword `reverse`
Reverses(n) == [i \in 1..n |-> KwReverse]

\* streams that hold an expression, some of them with tokens behind it
ExprStreams ==
    { <<Ident("a"), o1, Ident("b"), o2, Ident("c")>> : o1 \in OpTokens, o2 \in OpTokens }
    \cup { <<Ident("a"), o1, Ident("b")>> : o1 \in OpTokens }
    \cup { <<Ident("f"), OpenParen, Ident("a"), CloseParen, OpenParen, Ident("b"), CloseParen>>,
           <<OpenParen, Ident("a"), Plus, Ident("b"), CloseParen, Asterisk, Ident("c")>>,
           <<Ident("f"), OpenParen, Ident("a"), Comma, Ident("X"), CloseParen, Ident("b")>>,
           <<Ident("f"), OpenParen, CloseParen>>,
           <<Ident("f"), OpenParen, Ident("a")>>,
           <<OpenParen, Ident("a"), Equals>>,
           <<Ident("a"), Plus>>,
           <<Plus, Ident("a")>>,
           <<>> }

\* the applied rules a stream can name, before any `reverse`
BaseRuleStreams ==
    { <<Ident(n)>> : n \in AppliedNames }
    \cup { <<KwRule, Ident("a"), Equals, Ident("b")>>,
           <<KwRule, Ident("X"), Equals, Ident("f"), OpenParen, Ident("X"), CloseParen>>,
           <<KwRule, Ident("a"), Plus, Ident("b"), Equals, Ident("b"), Plus, Ident("a")>>,
           <<KwRule, Ident("a")>>,
           <<KwRule, Ident("a"), Equals>>,
           <<Equals>>,
           <<>> }

RuleStreams ==
    { Reverses(n) \o base : n \in 0..MaxReverse, base \in BaseRuleStreams }

ParseInit ==
    /\ CtxInit /\ LineIdle /\ script = <<>> /\ pos = 0 /\ PmIdle /\ ApIdle /\ DpIdle
    /\ px_tokens \in ExprStreams \cup RuleStreams
    /\ px_result = Pending

ParseExpr ==
    /\ px_result = Pending
    /\ px_result' = [type |-> "Expr", result |-> ExprParse(px_tokens)]
    /\ UNCHANGED <<px_tokens, ctx_vars, line_vars, file_vars, pm_vars, ap_vars, dp_vars>>

ParseAppliedRule ==
    /\ px_result = Pending
    /\ px_result' = [type |-> "AppliedRule", result |-> AppliedRuleParse(px_tokens)]
    /\ UNCHANGED <<px_tokens, ctx_vars, line_vars, file_vars, pm_vars, ap_vars, dp_vars>>

ParseNext == ParseExpr \/ ParseAppliedRule

SpecParse == ParseInit /\ [][ParseNext]_vars

-----------------------------------------------------------------------------
(* start_repl line by line: a line is lexed, the command it starts with is
   parsed and processed, and then the end of the line is expected *)

KwShape == Tok("Shape", "shape")
KwApply == Tok("Apply", "apply")
KwDone == Tok("Done", "done")
KwUndo == Tok("Undo", "undo")
KwQuit == Tok("Quit", "quit")
KwDelete == Tok("Delete", "delete")

\* the commands a line can hold
CommandLines ==
    { <<KwRule, Ident("dup"), Ident("X"), Equals,
        Ident("pair"), OpenParen, Ident("X"), Comma, Ident("X"), CloseParen>>,
      <<KwRule, Ident("replace"), Ident("a"), Equals, Ident("b")>>,
      <<KwShape, Ident("a")>>,
      <<KwShape, Ident("f"), OpenParen, Ident("a"), CloseParen, Plus, Ident("a")>>,
      <<KwApply, Ident("all"), Ident("dup")>>,
      <<KwApply, Ident("first"), KwRule, Ident("a"), Equals, Ident("b")>>,
      <<KwApply, Ident("all"), KwReverse, Ident("replace")>>,
      <<KwApply, Ident("bogus"), Ident("dup")>>,
      <<KwDone>>,
      <<KwUndo>>,
      <<KwQuit>>,
      <<KwDelete, Ident("dup")>> }

\* lines that hold no command
BrokenLines ==
    { <<>>,
      <<Ident("a")>>,
      <<KwShape>>,
      <<KwShape, Ident("f"), OpenParen, Ident("a")>>,
      <<KwApply, Ident("all")>>,
      <<KwApply, KwRule>>,
      <<KwRule, Ident("dup"), Ident("a")>>,
      <<KwDelete>> }

\* the lines of the model: a command, a command with a token behind it, no command
Lines ==
    CommandLines \cup { l \o <<Ident("b")>> : l \in CommandLines } \cup BrokenLines

\* Context::process_command
ProcessCommand(command) ==
    \/ command.kind = "DefineRule" /\ DefineRule(command.name, command.rule)
    \/ command.kind = "StartShaping" /\ StartShaping(command.expr)
    \/ command.kind = "ApplyRule"
           /\ ApplyRule(command.strategy_name, command.applied_rule)
    \/ command.kind = "FinishShaping" /\ FinishShaping
    \/ command.kind = "UndoRule" /\ UndoRule
    \/ command.kind = "Quit" /\ Quit
    \/ command.kind = "DeleteRule" /\ DeleteRule(command.name)

\* one turn of the loop of start_repl on the tokens of the line read
ReadLine(line) ==
    /\ ~quit
    /\ IF peek_token(line).kind = "End"
       THEN reported' = "None" /\ UNCHANGED ctx_vars
       ELSE \E parsed \in {CommandParse(line)} :
                IF parsed.err # "Ok"
                THEN reported' = parsed.err /\ UNCHANGED ctx_vars
                ELSE /\ ProcessCommand(parsed.value)
                     /\ reported' =
                            IF last'.err # "Ok"
                            THEN last'.err
                            ELSE IF expect_token_kind(parsed.lexer, "End").err # "Ok"
                                 THEN "ExpectedToken"
                                 ELSE "None"
    /\ UNCHANGED <<file_vars, pm_vars, ap_vars, px_vars, dp_vars>>

ReplInit ==
    CtxInit /\ LineIdle /\ script = <<>> /\ pos = 0 /\ PmIdle /\ ApIdle /\ PxIdle /\ DpIdle

ReplNext == \E line \in Lines : ReadLine(line)

SpecRepl == ReplInit /\ [][ReplNext]_vars

-----------------------------------------------------------------------------
(* Properties *)

f_abc == Fun(Sym("f"), <<a, b, c>>)
dup == User(X, Fun(Sym("pair"), <<X, X>>))

\* C1: undo cancels apply.  In a file whose commands i+1..i+3 are
\* `shape E`, `apply S R`, `undo`, once all three have succeeded the current
\* expression is E again and the history is empty.
UndoCancelsApply ==
    \A i \in 0..1 :
        ( /\ pos = i + 3
          /\ last = Result("UndoRule", "Ok")
          /\ script[i + 1].kind = "StartShaping"
          /\ script[i + 2].kind = "ApplyRule" )
        => /\ current_expr = script[i + 1].expr
           /\ shaping_history = <<>>

\* the undo of a rewrite that changed the expression, by a defined rule
UndoCancelsApplyWitness ==
    /\ pos = 4
    /\ last = Result("UndoRule", "Ok")
    /\ script[1] = CmdDefineRule("dup", dup)
    /\ script[2] = CmdStartShaping(f_abc)
    /\ script[3] = CmdApplyRule("deep", Anonymous(a, b))

\* C2: DefineRule(name, rule) is rejected with RuleAlreadyExists exactly when
\* name is a key of the rule table; a rejection leaves the table as it was, an
\* acceptance adds name -> rule to it and changes nothing else.
DefineRuleRejectedIffPresent ==
    [][\A n \in RuleNames, r \in RulePool :
          DefineRule(n, r) =>
            /\ (last'.err = "RuleAlreadyExists") <=> (n \in DOMAIN rules)
            /\ (n \in DOMAIN rules) => (rules' = rules)
            /\ (n \notin DOMAIN rules) =>
                  /\ last'.err = "Ok"
                  /\ DOMAIN rules' = DOMAIN rules \cup {n}
                  /\ rules'[n] = r
                  /\ \A m \in DOMAIN rules : rules'[m] = rules[m]]_vars

\* a definition was rejected while the only name of the table was the
\* built-in `replace`
DefineRuleRejectedWitness ==
    /\ last = Result("DefineRule", "RuleAlreadyExists")
    /\ DOMAIN rules = {"replace"}
    /\ rules["replace"] = Replace

\* C3: a command that returns a RuntimeError leaves rules, current_expr,
\* the history and quit as they were.
CommandAtomicity ==
    [][(last'.err # "Ok") =>
          UNCHANGED <<rules, current_expr, shaping_history, quit>>]_vars

\* an error raised inside the meta-rule, in a session that has a history
CommandAtomicityWitness ==
    /\ last = Result("ApplyRule", "StrategyIsNotSym")
    /\ shaping_history # <<>>

\* the match sites of the run that ap_result records at which the rule was applied
AppliedSites == { i \in 1..Len(ap_result.log.sites) : ap_result.log.sites[i].action = "Apply" }

\* C4: Halt ends the whole rewrite.  In a run of a User rule under a numeric
\* strategy no match site is visited after the one that returned Halt, and at
\* most one site is rewritten.
HaltEndsRewrite ==
    ( /\ ap_result # Pending
      /\ ap_rule.type = "User"
      /\ by_name(ap_strategy).type = "Nth" )
    => /\ \A i \in 1..(Len(ap_result.log.sites) - 1) : ap_result.log.sites[i].state # "Halt"
       /\ Cardinality(AppliedSites) <= 1

\* the file of scenario S2
S2Script ==
    << CmdDefineRule("dup", dup),
       CmdStartShaping(f_abc),
       CmdApplyRule("1", ByName("dup", FALSE)) >>

S2Done ==
    /\ pos = 3
    /\ SubSeq(script, 1, 3) = S2Script
    /\ last = Result("ApplyRule", "Ok")

\* C5 as stated: after `rule dup X = pair(X, X)`, `shape f(a, b, c)` and
\* `apply 1 dup` the current expression is f(a, pair(b, b), c).
S2RewritesSecondArgument ==
    S2Done => current_expr = Fun(Sym("f"), <<a, Fun(Sym("pair"), <<b, b>>), c>>)

\* C5 as amended: after `rule dup X = pair(X, X)`, `shape f(a, b, c)` and
\* `apply 1 dup` the current expression is pair(f, f)(a, b, c): match 0 is the
\* whole expression, match 1 is the head symbol f.
S2RewritesHead ==
    S2Done => current_expr = Fun(Fun(Sym("pair"), <<Sym("f"), Sym("f")>>), <<a, b, c>>)

S2Witness == S2Done /\ shaping_history = <<f_abc>>

RECURSIVE HasWildcard(_)
\* the pattern has a Var("_") somewhere
HasWildcard(expr) ==
    CASE expr.type = "Var" -> expr.name = "_"
      [] expr.type = "Op" -> HasWildcard(expr.lhs) \/ HasWildcard(expr.rhs)
      [] expr.type = "Fun" ->
            HasWildcard(expr.head) \/ \E i \in 1..Len(expr.args) : HasWildcard(expr.args[i])
      [] OTHER -> FALSE

\* C6 as stated: whenever pattern_match(P, V) is Some(bindings),
\* substitute_bindings(bindings, P) equals V, wildcard patterns included.
MatchSound ==
    (pm_result.type = "Some") =>
        substitute_bindings(pm_result.bindings, pm_pattern) = pm_value

\* C6 as amended: whenever pattern_match(P, V) is Some(bindings) and P has no
\* wildcard `_`, substitute_bindings(bindings, P) equals V.
MatchSoundWithoutWildcard ==
    (pm_result.type = "Some" /\ ~HasWildcard(pm_pattern)) =>
        substitute_bindings(pm_result.bindings, pm_pattern) = pm_value

\* a match of a pattern that uses one variable twice
MatchSoundWitness ==
    /\ pm_result.type = "Some"
    /\ pm_pattern = Fun(Sym("f"), <<X, X>>)
    /\ pm_value = Fun(Sym("f"), <<b, b>>)

\* the applied rule r materializes to a rule, for the rule table rs
Materializes(rs, r) ==
    \/ r.type = "Anonymous"
    \/ /\ r.type = "ByName"
       /\ r.name \in DOMAIN rs
       /\ ~(r.reversed /\ rs[r.name] = Replace)

\* C7: a successful ApplyRule appends the current expression as it was to the
\* history, installs the result of the rewrite as the current expression and
\* leaves rules and quit alone, also when the rewrite changed nothing.
ApplyRulePushesSnapshot ==
    [][\A s \in StrategyNames, r \in AppliedRules :
          (ApplyRule(s, r) /\ last'.err = "Ok") =>
            /\ shaping_history' = Append(shaping_history, current_expr)
            /\ current_expr' =
                  RuleApply(materialize_applied_rule(rules, r).rule, current_expr,
                            by_name(s)).expr
            /\ UNCHANGED <<rules, quit>>]_vars

\* an apply that matched nowhere: the expression is the snapshot just taken
ApplyRuleNoMatchWitness ==
    /\ last = Result("ApplyRule", "Ok")
    /\ shaping_history = <<a>>
    /\ current_expr = a
    /\ DOMAIN rules = {"replace"}

\* C8: the error ApplyRule returns.  Without a current expression it is
\* NoShapingInPlace; else an absent rule name gives RuleDoesNotExist and a
\* reversed `replace` gives IrreversibleRule, whatever the strategy name is;
\* an unknown strategy name gives UnknownStrategy only when the rule
\* materializes.
ApplyRuleErrorPrecedence ==
    [][\A s \in StrategyNames, r \in AppliedRules :
          ApplyRule(s, r) =>
            /\ (current_expr = None) => (last'.err = "NoShapingInPlace")
            /\ (current_expr # None /\ r.type = "ByName" /\ r.name \notin DOMAIN rules)
                  => (last'.err = "RuleDoesNotExist")
            /\ ( /\ current_expr # None /\ r.type = "ByName" /\ r.name \in DOMAIN rules
                 /\ r.reversed /\ rules[r.name] = Replace )
                  => (last'.err = "IrreversibleRule")
            /\ (current_expr # None /\ by_name(s) = None)
                  => (last'.err = "UnknownStrategy" <=> Materializes(rules, r))]_vars

ApplyRuleErrorPrecedenceWitness ==
    /\ last = Result("ApplyRule", "IrreversibleRule")
    /\ current_expr # None

\* C9: StartShaping(expr) fails with AlreadyShaping exactly when current_expr
\* is set; when it succeeds current_expr is expr and the history is empty.
StartShapingOpensEmptySession ==
    [][\A e \in ShapeExprs :
          StartShaping(e) =>
            /\ (last'.err = "AlreadyShaping") <=> (current_expr # None)
            /\ (current_expr = None) =>
                  /\ last'.err = "Ok"
                  /\ current_expr' = e
                  /\ shaping_history' = <<>>]_vars

\* a session started while a rule defined earlier is in the table
StartShapingWitness ==
    /\ last = Result("StartShaping", "Ok")
    /\ current_expr = f_abc
    /\ "dup" \in DOMAIN rules

\* C10: UndoRule fails with NoShapingInPlace without a session, with NoHistory
\* in a session whose history is empty, and else pops the last snapshot into
\* current_expr; the first snapshot of a session is the expression it was
\* started on, and a session with an empty history is at that expression.
UndoRuleIsLifo ==
    /\ [](shaping_history # <<>> => shaping_history[1] = shaped)
    /\ []((current_expr # None /\ shaping_history = <<>>) => current_expr = shaped)
    /\ [][UndoRule =>
            /\ (current_expr = None) => (last'.err = "NoShapingInPlace")
            /\ (current_expr # None /\ shaping_history = <<>>)
                  => (last'.err = "NoHistory")
            /\ (current_expr # None /\ shaping_history # <<>>)
                  => /\ last'.err = "Ok"
                     /\ current_expr' = shaping_history[Len(shaping_history)]
                     /\ shaping_history' =
                           SubSeq(shaping_history, 1, Len(shaping_history) - 1)]_vars

\* the first of two undos after two applies that both changed the expression
UndoRuleWitness ==
    /\ last = Result("UndoRule", "Ok")
    /\ Len(shaping_history) = 1
    /\ current_expr # shaped

\* apply_rule(S, H, B, E) with S the symbol of a known strategy
IsMetaNode(expr) ==
    /\ expr.type = "Fun"
    /\ expr.head = Sym("apply_rule")
    /\ Len(expr.args) = 4
    /\ expr.args[1].type = "Sym"
    /\ by_name(expr.args[1].name) # None

\* expr with every outermost meta-rule node replaced by the rewrite it asks for
RECURSIVE MetaExpected(_)
MetaExpected(expr) ==
    IF IsMetaNode(expr)
    THEN RuleApply(User(expr.args[2], expr.args[3]), expr.args[4],
                   by_name(expr.args[1].name)).expr
    ELSE CASE expr.type = "Op" ->
                 Op(expr.op, MetaExpected(expr.lhs), MetaExpected(expr.rhs))
           [] expr.type = "Fun" ->
                 Fun(MetaExpected(expr.head),
                     [i \in 1..Len(expr.args) |-> MetaExpected(expr.args[i])])
           [] OTHER -> expr

\* C11: the meta-rule works in place.  A successful run of Replace, under any
\* outer strategy, returns the expression with every apply_rule(S, H, B, E) node
\* replaced by the rewrite of E with H = B under a fresh S; the halt flag is
\* false and the outer strategy is left as it was, so siblings of a rewritten
\* node are rewritten too.
MetaRuleInPlace ==
    ( /\ ap_result # Pending
      /\ ap_rule = Replace
      /\ ap_result.err = "Ok" )
    => /\ ap_result.expr = MetaExpected(ap_expr)
       /\ ap_result.halt = FALSE
       /\ ap_result.strategy = by_name(ap_strategy)

\* both operands of a sum are meta-rule nodes, the first of them under `first`
MetaRuleInPlaceWitness ==
    /\ ap_result # Pending
    /\ ap_rule = Replace
    /\ ap_strategy = "first"
    /\ ap_expr = Op("Add", Fun(Sym("apply_rule"), <<Sym("first"), a, b, Op("Add", a, a)>>),
                         Fun(Sym("apply_rule"), <<Sym("all"), a, b, Op("Add", a, a)>>))
    /\ ap_result.err = "Ok"
    /\ ap_result.expr = Op("Add", Op("Add", b, a), Op("Add", b, b))

\* The arguments of a Fun from index i on, each rewritten by its own apply_impl
\* call until one of the calls halts, and left as they are after it
RECURSIVE ArgsUntilHalt(_, _, _, _)
ArgsUntilHalt(rule, args, i, strategy) ==
    IF i > Len(args)
    THEN <<>>
    ELSE LET r == apply_impl(rule, args[i], strategy, NewLog, 1)
         IN  IF r.halt
             THEN <<r.expr>> \o SubSeq(args, i + 1, Len(args))
             ELSE <<r.expr>> \o ArgsUntilHalt(rule, args, i + 1, r.strategy)

\* some argument's own apply_impl call halts before the last argument
RECURSIVE ArgHalts(_, _, _, _)
ArgHalts(rule, args, i, strategy) ==
    /\ i < Len(args)
    /\ LET r == apply_impl(rule, args[i], strategy, NewLog, 1)
       IN  r.halt \/ ArgHalts(rule, args, i + 1, r.strategy)

\* the run went from the root straight into its subexpressions and succeeded
DescendsFromRoot ==
    /\ ap_result # Pending
    /\ ap_rule.type = "User"
    /\ pattern_match(ap_rule.head, ap_expr) = None
    /\ ap_result.err = "Ok"

RECURSIVE Subterms(_)
Subterms(expr) ==
    {expr} \cup
    CASE expr.type = "Op" -> Subterms(expr.lhs) \cup Subterms(expr.rhs)
      [] expr.type = "Fun" ->
             Subterms(expr.head)
             \cup UNION { Subterms(expr.args[i]) : i \in 1..Len(expr.args) }
      [] OTHER -> {}

StrictSubterms(expr) ==
    CASE expr.type = "Op" -> Subterms(expr.lhs) \cup Subterms(expr.rhs)
      [] expr.type = "Fun" ->
             Subterms(expr.head)
             \cup UNION { Subterms(expr.args[i]) : i \in 1..Len(expr.args) }
      [] OTHER -> {}

\* expr holds an apply_rule node whose strategy is `deep`
HasDeepMetaNode(expr) ==
    \E e \in Subterms(expr) : IsMetaNode(e) /\ e.args[1] = Sym("deep")

\* C19: termination.  A rewrite with a User rule under `all`, `first` or a
\* numeric strategy ends: every recursive call is on a strict subterm of the
\* input, never on a produced result.  A rewrite that does not end runs under
\* `deep`, directly or as the inner strategy of an apply_rule node under the
\* meta-rule.
OnlyDeepDiverges ==
    ap_result # Pending =>
        /\ ( ap_rule.type = "User" /\ by_name(ap_strategy).type \in {"All", "Nth"} )
           => /\ ap_result.err # "Diverged"
              /\ \A i \in 2..Len(ap_result.log.calls) :
                     ap_result.log.calls[i] \in StrictSubterms(ap_expr)
        /\ ap_result.err = "Diverged"
           => \/ ap_rule.type = "User" /\ by_name(ap_strategy) = Deep
              \/ ap_rule = Replace /\ HasDeepMetaNode(ap_expr)

\* X = f(X) under the numeric strategy 2 visits f(g(a), a), f and g(a) and ends
OnlyDeepDivergesWitness ==
    /\ ap_result # Pending
    /\ ap_rule = User(X, Fun(Sym("f"), <<X>>))
    /\ ap_strategy = "2"
    /\ ap_expr = Fun(Sym("f"), <<Fun(Sym("g"), <<a>>), a>>)
    /\ ap_result.err = "Ok"
    /\ ap_result.log.calls = <<ap_expr, Sym("f"), Fun(Sym("g"), <<a>>)>>
    /\ ap_result.expr = Fun(Sym("f"), <<Fun(Sym("f"), <<Fun(Sym("g"), <<a>>)>>), a>>)

\* X = f(X) applied deeply, as the rule itself and through the meta-rule
DeepDiverges ==
    /\ ap_result # Pending
    /\ ap_result.err = "Diverged"
    /\ \/ ap_rule = User(X, Fun(Sym("f"), <<X>>)) /\ ap_strategy = "deep"
       \/ ap_rule = Replace /\ ap_strategy = "all"

\* C14: standard output.  A successful StartShaping, ApplyRule or UndoRule
\* writes exactly one line, " => " and the expression the session now holds; a
\* failed command and DefineRule, FinishShaping, DeleteRule and Quit write
\* nothing.
OneLinePerResult ==
    [][ out' = IF /\ last'.kind \in {"StartShaping", "ApplyRule", "UndoRule"}
                  /\ last'.err = "Ok"
               THEN <<" => " \o Display(current_expr')>>
               ELSE <<>> ]_vars

\* dup rewrites a to pair(a, a) and the line shows it
OneLinePerResultWitness ==
    /\ last = Result("ApplyRule", "Ok")
    /\ shaping_history = <<a>>
    /\ out = <<" => pair(a, a)">>

\* C18 as stated: in every reachable state a non-empty history implies a
\* current expression, no session implies an empty history, and the history is
\* as long as the successful applies less the successful undos since the last
\* successful StartShaping.
SessionInvariant ==
    /\ shaping_history # <<>> => current_expr # None
    /\ current_expr = None => shaping_history = <<>>
    /\ Len(shaping_history) = net_applies

\* C18: session invariant.  In every reachable state a non-empty history
\* implies a current expression and no session implies an empty history; while
\* a session is open the history is as long as the successful applies less the
\* successful undos since the last successful StartShaping.
SessionInvariantWhileOpen ==
    /\ shaping_history # <<>> => current_expr # None
    /\ current_expr = None => shaping_history = <<>>
    /\ current_expr # None => Len(shaping_history) = net_applies

\* two applies and one undo into an open session
SessionInvariantWitness ==
    /\ last = Result("UndoRule", "Ok")
    /\ current_expr # None
    /\ Len(shaping_history) = 1
    /\ net_applies = 1

\* a session with one apply has been finished
SessionFinishedAfterApply ==
    /\ last = Result("FinishShaping", "Ok")
    /\ shaping_history = <<>>
    /\ net_applies = 1

\* C16 as stated: the head of a Fun is written in parentheses if and only if it
\* is an Op.
FunHeadParenIffOp ==
    ( dp_result # Pending /\ dp_expr.type = "Fun" )
    => dp_result.text = (IF dp_expr.head.type = "Op"
                         THEN "(" \o Display(dp_expr.head) \o ")"
                         ELSE Display(dp_expr.head))
                        \o "(" \o DisplayArgs(dp_expr.args, 1) \o ")"

\* C16: the head of a Fun is written in parentheses if and only if it is an Op
\* or a Fun; only a head that is a Sym or a Var is written bare.
FunHeadParenIffNotName ==
    ( dp_result # Pending /\ dp_expr.type = "Fun" )
    => dp_result.text = (IF dp_expr.head.type \in {"Op", "Fun"}
                         THEN "(" \o Display(dp_expr.head) \o ")"
                         ELSE Display(dp_expr.head))
                        \o "(" \o DisplayArgs(dp_expr.args, 1) \o ")"

\* Fun(Fun(f, [a]), [b]) is written with its head in parentheses
FunHeadParenWitness ==
    /\ dp_expr = Fun(f_a, <<b>>)
    /\ dp_result # Pending
    /\ dp_result.text = "(f(a))(b)"

\* the stream is `a o1 b o2 c` with o1 and o2 of one precedence level
TwoOperatorsOfOneLevel ==
    /\ Len(px_tokens) = 5
    /\ px_tokens[1] = Ident("a") /\ px_tokens[3] = Ident("b") /\ px_tokens[5] = Ident("c")
    /\ px_tokens[2] \in OpTokens /\ px_tokens[4] \in OpTokens
    /\ precedence(from_token_kind(px_tokens[2].kind).value)
           = precedence(from_token_kind(px_tokens[4].kind).value)

\* C13: operators are left-associative within their precedence level:
\* `a o1 b o2 c` parses to Op(o2, Op(o1, a, b), c).
LeftAssociative ==
    ( px_result # Pending /\ px_result.type = "Expr" /\ TwoOperatorsOfOneLevel )
    => px_result.result =
           ParseOk(Op(from_token_kind(px_tokens[4].kind).value,
                      Op(from_token_kind(px_tokens[2].kind).value, a, b),
                      c),
                   <<>>)

\* what Expr::parse returns for `a - b - c`
SubtractionNestsToTheRight ==
    /\ px_result # Pending /\ px_result.type = "Expr"
    /\ px_tokens = <<Ident("a"), Dash, Ident("b"), Dash, Ident("c")>>
    /\ px_result.result = ParseOk(Op("Sub", a, Op("Sub", b, c)), <<>>)
    /\ Display(px_result.result.value) = "a - (b - c)"

\* the number of `reverse` keywords a stream starts with, and what follows them
RECURSIVE LeadingReverses(_)
LeadingReverses(lexer) ==
    IF peek_token(lexer).kind = "Reverse"
    THEN 1 + LeadingReverses(next_token(lexer))
    ELSE 0

RECURSIVE StripReverses(_)
StripReverses(lexer) ==
    IF peek_token(lexer).kind = "Reverse"
    THEN StripReverses(next_token(lexer))
    ELSE lexer

\* the rule tables an applied rule is materialized against
RuleTables ==
    { [n \in {"replace"} |-> Replace],
      [n \in {"replace", "dup"} |-> IF n = "dup" THEN dup ELSE Replace],
      [n \in {"replace", "dup"} |-> IF n = "dup" THEN Replace ELSE User(a, b)] }

\* what materialization gives for the flipped rule: body -> head for a User
\* rule, IrreversibleRule for Replace, and the failure of a failed lookup
Flipped(m) ==
    IF m.err # "Ok"
    THEN m
    ELSE CASE m.rule.type = "User" ->
                 [err |-> "Ok", rule |-> User(m.rule.body, m.rule.head)]
           [] m.rule.type = "Replace" ->
                 [err |-> "IrreversibleRule", rule |-> None]

\* C12: reversal is an involution.  Behind an odd number of `reverse` keywords
\* an applied rule materializes to the flipped rule (body -> head for a User
\* rule, anonymous or by name; IrreversibleRule for Replace), behind an even
\* number to exactly what it materializes to with no `reverse` at all.
ReverseIsInvolution ==
    ( px_result # Pending /\ px_result.type = "AppliedRule" )
    => LET n == LeadingReverses(px_tokens)
           base == AppliedRuleParse(StripReverses(px_tokens))
           parsed == px_result.result
       IN  /\ parsed.err = base.err
           /\ parsed.lexer = base.lexer
           /\ parsed.err = "Ok" =>
                 \A rs \in RuleTables :
                     materialize_applied_rule(rs, parsed.value) =
                         IF n % 2 = 1
                         THEN Flipped(materialize_applied_rule(rs, base.value))
                         ELSE materialize_applied_rule(rs, base.value)

\* `reverse reverse replace` names the built-in rule as `replace` does, and a
\* third `reverse` makes it irreversible
ReverseIsInvolutionWitness ==
    /\ px_result # Pending /\ px_result.type = "AppliedRule"
    /\ px_tokens = <<KwReverse, KwReverse, Ident("replace")>>
    /\ px_result.result.err = "Ok"
    /\ materialize_applied_rule([n \in {"replace"} |-> Replace], px_result.result.value)
           = [err |-> "Ok", rule |-> Replace]
    /\ materialize_applied_rule([n \in {"replace"} |-> Replace],
                                reversed(px_result.result.value)).err = "IrreversibleRule"

\* C15: in interactive mode a line for which an error is reported is
\* discarded: rules, current_expr, history and quit are after the line what
\* they were before it, and the session goes on.
ReportedLineIsDiscarded ==
    [][ reported' # "None"
        => UNCHANGED <<rules, current_expr, shaping_history, quit>> ]_vars

\* `quit b` has been read: an error is reported and the session is over
QuitWithExtraTokenQuits ==
    /\ reported = "ExpectedToken"
    /\ last = Result("Quit", "Ok")
    /\ quit

\* `shape a b` has been read: an error is reported and a session is open
ShapeWithExtraTokenShapes ==
    /\ reported = "ExpectedToken"
    /\ last = Result("StartShaping", "Ok")
    /\ current_expr = a
    /\ out = <<" => a">>

\* A line whose command did not parse, or was rejected by process_command,
\* leaves rules, current_expr, history and quit as they were.
FailedCommandIsDiscarded ==
    [][ (reported' # "None" /\ reported' # "ExpectedToken")
        => UNCHANGED <<rules, current_expr, shaping_history, quit>> ]_vars
====
